---- MODULE Spec2Model ----
(***************************************************************************)
(* Model of python/src/mrr_calculator.py: the angle of the long side and   *)
(* the dimensions of a minimum rotated rectangle, together with the shape  *)
(* construction of python/tests/test_mrr_calculator.py.                    *)
(*                                                                         *)
(* Numbers.  Coordinates are fixed-point integers, one unit = 0.001 of the *)
(* source's coordinate unit, so VERTICAL_THRESHOLD (0.001) is 1.  A length *)
(* (math.dist) is carried as its square, which is exact in integers; the   *)
(* square root is strictly increasing, so >=, max, min and equality of     *)
(* lengths are those of the squares.  round(rad2deg(atan(dy/dx))) is       *)
(* computed by comparing dy/dx with tan((k + 1/2) degrees), read from a    *)
(* sine table scaled by 100000.                                            *)
(***************************************************************************)
EXTENDS Integers, Sequences, FiniteSets, TLC

VARIABLES box,     \* polygon.minimum_rotated_rectangle.exterior.coords[0..3]
          theta,   \* rotation the shape was built with, quarter degrees; NoTheta if not built by rotation
          angle,   \* outcome of the last get_mrr_angle_of_long_side(box)
          dims,    \* outcome of the last get_mrr_dims(box)
          ref,     \* results for the shape before it was last transformed
          arg,     \* restrict_0_to_180: the argument of the call
          degree,  \* restrict_0_to_180: the local variable degree
          rpc,     \* restrict_0_to_180: position in the function
          ret      \* restrict_0_to_180: the returned value

vars == <<box, theta, angle, dims, ref, arg, degree, rpc, ret>>

(* ------------------------------ bounds -------------------------------- *)

\* Corner offsets of the small parallelograms of Init lie in -MaxCoord..MaxCoord.
MaxCoord == 3

\* restrict_0_to_180 is exercised on -MaxDegree..MaxDegree.
MaxDegree == 400

(* ----------------------------- constants ------------------------------ *)

\* VERTICAL_THRESHOLD = 0.001, in units of 0.001.
VERTICAL_THRESHOLD == 1

\* round(100000 * sin(q / 4 degrees)) for q = 0..360, at index q + 1.
SinTable == <<
    0, 436, 873, 1309, 1745, 2181, 2618, 3054, 3490, 3926,
    4362, 4798, 5234, 5669, 6105, 6540, 6976, 7411, 7846, 8281,
    8716, 9150, 9585, 10019, 10453, 10887, 11320, 11754, 12187, 12620,
    13053, 13485, 13917, 14349, 14781, 15212, 15643, 16074, 16505, 16935,
    17365, 17794, 18224, 18652, 19081, 19509, 19937, 20364, 20791, 21218,
    21644, 22070, 22495, 22920, 23345, 23769, 24192, 24615, 25038, 25460,
    25882, 26303, 26724, 27144, 27564, 27983, 28402, 28820, 29237, 29654,
    30071, 30486, 30902, 31316, 31730, 32144, 32557, 32969, 33381, 33792,
    34202, 34612, 35021, 35429, 35837, 36244, 36650, 37056, 37461, 37865,
    38268, 38671, 39073, 39474, 39875, 40275, 40674, 41072, 41469, 41866,
    42262, 42657, 43051, 43445, 43837, 44229, 44620, 45010, 45399, 45787,
    46175, 46561, 46947, 47332, 47716, 48099, 48481, 48862, 49242, 49622,
    50000, 50377, 50754, 51129, 51504, 51877, 52250, 52621, 52992, 53361,
    53730, 54097, 54464, 54829, 55194, 55557, 55919, 56280, 56641, 57000,
    57358, 57715, 58070, 58425, 58779, 59131, 59482, 59832, 60182, 60529,
    60876, 61222, 61566, 61909, 62251, 62592, 62932, 63271, 63608, 63944,
    64279, 64612, 64945, 65276, 65606, 65935, 66262, 66588, 66913, 67237,
    67559, 67880, 68200, 68518, 68835, 69151, 69466, 69779, 70091, 70401,
    70711, 71019, 71325, 71630, 71934, 72236, 72537, 72837, 73135, 73432,
    73728, 74022, 74314, 74606, 74896, 75184, 75471, 75756, 76041, 76323,
    76604, 76884, 77162, 77439, 77715, 77988, 78261, 78532, 78801, 79069,
    79335, 79600, 79864, 80125, 80386, 80644, 80902, 81157, 81412, 81664,
    81915, 82165, 82413, 82659, 82904, 83147, 83389, 83629, 83867, 84104,
    84339, 84573, 84805, 85035, 85264, 85491, 85717, 85941, 86163, 86384,
    86603, 86820, 87036, 87250, 87462, 87673, 87882, 88089, 88295, 88499,
    88701, 88902, 89101, 89298, 89493, 89687, 89879, 90070, 90259, 90446,
    90631, 90814, 90996, 91176, 91355, 91531, 91706, 91879, 92050, 92220,
    92388, 92554, 92718, 92881, 93042, 93201, 93358, 93514, 93667, 93819,
    93969, 94118, 94264, 94409, 94552, 94693, 94832, 94970, 95106, 95240,
    95372, 95502, 95630, 95757, 95882, 96005, 96126, 96246, 96363, 96479,
    96593, 96705, 96815, 96923, 97030, 97134, 97237, 97338, 97437, 97534,
    97630, 97723, 97815, 97905, 97992, 98079, 98163, 98245, 98325, 98404,
    98481, 98556, 98629, 98700, 98769, 98836, 98902, 98965, 99027, 99087,
    99144, 99200, 99255, 99307, 99357, 99406, 99452, 99497, 99540, 99580,
    99619, 99657, 99692, 99725, 99756, 99786, 99813, 99839, 99863, 99885,
    99905, 99923, 99939, 99953, 99966, 99976, 99985, 99991, 99996, 99999,
    100000
>>

\* sin and cos of q quarter degrees, 0 <= q < 720, scaled by 100000.
sin_q(q) == IF q <= 360 THEN SinTable[q + 1] ELSE SinTable[720 - q + 1]

cos_q(q) == IF q <= 360 THEN SinTable[360 - q + 1] ELSE -SinTable[q - 360 + 1]

Abs(n) == IF n < 0 THEN -n ELSE n

\* n / d rounded to the nearest integer, symmetric about 0 (d > 0).
RoundDiv(n, d) == IF n >= 0 THEN (2 * n + d) \div (2 * d) ELSE -((2 * (-n) + d) \div (2 * d))

(* ------------------------- mrr_calculator.py -------------------------- *)

\* math.dist(p, q), carried as its square.
dist_sq(p, q) == (p[1] - q[1]) * (p[1] - q[1]) + (p[2] - q[2]) * (p[2] - q[2])

\* long_side_end with > for >=: a tie goes to box[3].
long_side_end_strict(b) ==
    LET start_pt == b[1]
        len_side_1 == dist_sq(start_pt, b[2])
        len_side_2 == dist_sq(start_pt, b[4])
    IN  IF len_side_1 > len_side_2 THEN b[2] ELSE b[4]

\* long_side_end without the comparison: always box[1].
long_side_end_first(b) == b[2]

\* The end point of the side of interest: box[1] of the source when
\* len_side_1 >= len_side_2, box[3] otherwise (tuples here start at 1).
long_side_end(b) ==
    LET start_pt == b[1]
        len_side_1 == dist_sq(start_pt, b[2])
        len_side_2 == dist_sq(start_pt, b[4])
    IN  IF len_side_1 >= len_side_2 THEN b[2] ELSE b[4]

\* is_vertical with < for <=.
is_vertical_strict(x_dist) == Abs(x_dist) < VERTICAL_THRESHOLD

\* is_vertical with the guard left out.
is_vertical_missing(x_dist) == FALSE

\* abs(x_dist) <= VERTICAL_THRESHOLD
is_vertical(x_dist) == Abs(x_dist) <= VERTICAL_THRESHOLD

\* round_atan_deg truncating toward 0, as int() would, instead of rounding:
\* the marks are tan(1), tan(2), ..., tan(89).
round_atan_deg_trunc(y_dist, x_dist) ==
    LET n == Cardinality({k \in 1..89 :
                 Abs(y_dist) * cos_q(4 * k) >= Abs(x_dist) * sin_q(4 * k)})
    IN  IF (y_dist < 0) # (x_dist < 0) THEN -n ELSE n

\* round_atan_deg taking its sign from y_dist alone.
round_atan_deg_sign_of_y(y_dist, x_dist) ==
    LET n == Cardinality({k \in 0..89 :
                 Abs(y_dist) * cos_q(4 * k + 2) >= Abs(x_dist) * sin_q(4 * k + 2)})
    IN  IF y_dist < 0 THEN -n ELSE n

\* round(np.rad2deg(math.atan(y_dist / x_dist))) for x_dist # 0: the number of
\* half-degree marks tan(0.5), tan(1.5), ..., tan(89.5) that |y_dist / x_dist|
\* reaches, with the sign of the slope.
round_atan_deg(y_dist, x_dist) ==
    LET n == Cardinality({k \in 0..89 :
                 Abs(y_dist) * cos_q(4 * k + 2) >= Abs(x_dist) * sin_q(4 * k + 2)})
    IN  IF (y_dist < 0) # (x_dist < 0) THEN -n ELSE n

\* restrict_0_to_180 not applied: the rounded angle is returned as it is.
restrict_skipped(d) == d

\* while degree < 0: degree += 180;  return degree % 180
RECURSIVE restrict_0_to_180(_)
restrict_0_to_180(d) == IF d < 0 THEN restrict_0_to_180(d + 180) ELSE d % 180

\* The state of a call that has not been made.
NoAngle == [outcome |-> "pending", path |-> "none", end_pt |-> <<0, 0>>,
            x_dist |-> 0, y_dist |-> 0, rounded |-> 0, value |-> 0]

\* get_mrr_angle_of_long_side with the vertical guard on the x coordinate of
\* start_pt instead of on x_dist.
get_mrr_angle_guard_on_start(b) ==
    LET start_pt == b[1]
        end_pt == long_side_end(b)
        x_dist == start_pt[1] - end_pt[1]
        y_dist == start_pt[2] - end_pt[2]
        locals == [NoAngle EXCEPT !.end_pt = end_pt, !.x_dist = x_dist, !.y_dist = y_dist]
    IN  IF is_vertical(start_pt[1])
        THEN [locals EXCEPT !.outcome = "return", !.path = "vertical", !.value = 90]
        ELSE IF x_dist = 0
        THEN [locals EXCEPT !.outcome = "ZeroDivisionError", !.path = "atan"]
        ELSE LET rounded == round_atan_deg(y_dist, x_dist)
             IN  [locals EXCEPT !.outcome = "return", !.path = "atan",
                                !.rounded = rounded,
                                !.value = restrict_0_to_180(rounded)]

\* get_mrr_angle_of_long_side on the corners b.  outcome is "return" with the
\* returned value, or "ZeroDivisionError" when y_dist / x_dist is evaluated
\* with x_dist = 0; path tells which return statement was taken, and the
\* locals of the call are kept beside it.
get_mrr_angle_of_long_side(b) ==
    LET start_pt == b[1]
        end_pt == long_side_end(b)
        x_dist == start_pt[1] - end_pt[1]
        y_dist == start_pt[2] - end_pt[2]
        locals == [NoAngle EXCEPT !.end_pt = end_pt, !.x_dist = x_dist, !.y_dist = y_dist]
    IN  IF is_vertical(x_dist)
        THEN [locals EXCEPT !.outcome = "return", !.path = "vertical", !.value = 90]
        ELSE IF x_dist = 0
        THEN [locals EXCEPT !.outcome = "ZeroDivisionError", !.path = "atan"]
        ELSE LET rounded == round_atan_deg(y_dist, x_dist)
             IN  [locals EXCEPT !.outcome = "return", !.path = "atan",
                                !.rounded = rounded,
                                !.value = restrict_0_to_180(rounded)]

NoDims == [called |-> FALSE, length |-> 0, width |-> 0]

\* get_mrr_dims without the comparison: len_side_1 is always the length.
get_mrr_dims_unsorted(b) ==
    LET start_pt == b[1]
        len_side_1 == dist_sq(start_pt, b[2])
        len_side_2 == dist_sq(start_pt, b[4])
    IN  [called |-> TRUE, length |-> len_side_1, width |-> len_side_2]

\* get_mrr_dims on the corners b; length and width are squares of lengths.
get_mrr_dims(b) ==
    LET start_pt == b[1]
        len_side_1 == dist_sq(start_pt, b[2])
        len_side_2 == dist_sq(start_pt, b[4])
    IN  IF len_side_1 >= len_side_2
        THEN [called |-> TRUE, length |-> len_side_1, width |-> len_side_2]
        ELSE [called |-> TRUE, length |-> len_side_2, width |-> len_side_1]

(* ------------------------ the shapes of the tests --------------------- *)

\* base_item_points, in the source's units.
base_item_points == <<(<<-4, 1>>), (<<4, 1>>), (<<4, -1>>), (<<-4, -1>>)>>

\* shapely.affinity.rotate about the centre (0, 0) of base_item_points by q
\* quarter degrees, counter-clockwise; the result in units of 0.001.
rotate_pt(p, q) ==
    <<RoundDiv(p[1] * cos_q(q) - p[2] * sin_q(q), 100),
      RoundDiv(p[1] * sin_q(q) + p[2] * cos_q(q), 100)>>

rotate(shape, q) ==
    <<rotate_pt(shape[1], q), rotate_pt(shape[2], q),
      rotate_pt(shape[3], q), rotate_pt(shape[4], q)>>

\* shapely.affinity.translate by whole units (x_off, y_off).
translate(shape, x_off, y_off) ==
    LET mv(p) == <<p[1] + 1000 * x_off, p[2] + 1000 * y_off>>
    IN  <<mv(shape[1]), mv(shape[2]), mv(shape[3]), mv(shape[4])>>

\* The least and the greatest value of random.randrange(-100, 100).
Offsets == {-100, 99}

\* The corners as minimum_rotated_rectangle.exterior.coords may list them:
\* starting at corner s, in the given winding (w = 1) or the opposite (w = -1).
corner_order(shape, s, w) ==
    LET at(i) == shape[((s + w * i + 8) % 4) + 1]
    IN  <<at(0), at(1), at(2), at(3)>>

\* The shape turned by 180 degrees about its centre m: c becomes 2m - c,
\* where 2m is the sum of two opposite corners.
rotate_180(shape) ==
    LET mm == <<shape[1][1] + shape[3][1], shape[1][2] + shape[3][2]>>
        tn(p) == <<mm[1] - p[1], mm[2] - p[2]>>
    IN  <<tn(shape[1]), tn(shape[2]), tn(shape[3]), tn(shape[4])>>

\* theta of a shape that was not built by a rotation.
NoTheta == 0 - 1

\* Rotations of the tests' shapes: quarter degrees in [0, 180) that are not
\* exactly half way between two whole degrees.
Thetas == {q \in 0..719 : q % 4 # 2}

\* round(theta) in whole degrees.
round_theta(q) == (q + 2) \div 4

\* round(sqrt(s) / 1000): a squared length rounded to whole source units.
round_len(s) ==
    CHOOSE n \in 0..40 : /\ (n = 0 \/ (1000 * n - 500) * (1000 * n - 500) <= s)
                          /\ s < (1000 * n + 500) * (1000 * n + 500)

(* ------------------------------ the inputs ---------------------------- *)

Coords == (0 - MaxCoord)..MaxCoord

\* Corner sequences c0, c0 + u, c0 + u + v, c0 + v with c0 = (0, 0) and small u, v:
\* rectangles and squares in both windings, slanted parallelograms, and the
\* degenerate sequences with coincident or collinear corners.
SmallBoxes ==
    {<<(<<0, 0>>), (<<ux, uy>>), (<<ux + vx, uy + vy>>), (<<vx, vy>>)>> :
        ux \in Coords, uy \in Coords, vx \in Coords, vy \in Coords}

\* The 8 by 2 item of the tests turned by q quarter degrees, its corners
\* listed from corner s in winding w.
TestBox(q, s, w) == corner_order(rotate(base_item_points, q), s, w)

NoRef == [kind |-> "none", angle |-> NoAngle, dims |-> NoDims, box |-> <<>>]

Init ==
    /\ \/ /\ theta = NoTheta
          /\ box \in SmallBoxes
       \/ /\ theta \in Thetas
          /\ \E s \in 0..3, w \in {1, -1} : box = TestBox(theta, s, w)
    /\ angle = NoAngle
    /\ dims = NoDims
    /\ ref = NoRef
    /\ arg = 0
    /\ degree = 0
    /\ rpc = "off"
    /\ ret = 0

(* ------------------------------ the calls ----------------------------- *)

restrict_vars == <<arg, degree, rpc, ret>>

CallAngle ==
    /\ angle.outcome = "pending"
    /\ angle' = get_mrr_angle_of_long_side(box)
    /\ UNCHANGED <<box, theta, dims, ref, restrict_vars>>

CallDims ==
    /\ ~dims.called
    /\ dims' = get_mrr_dims(box)
    /\ UNCHANGED <<box, theta, angle, ref, restrict_vars>>

\* Both results of the shape are in, and it has not been transformed yet.
Measured == angle.outcome # "pending" /\ dims.called /\ ref.kind = "none"

Transformed(kind, b) ==
    /\ Measured
    /\ box' = b
    /\ ref' = [kind |-> kind, angle |-> angle, dims |-> dims, box |-> box]
    /\ angle' = NoAngle
    /\ dims' = NoDims
    /\ UNCHANGED <<theta, restrict_vars>>

Translate == \E x_off \in Offsets, y_off \in Offsets :
    Transformed("translate", translate(box, x_off, y_off))

Rotate180 == Transformed("rotate180", rotate_180(box))

Reorder == \E s \in 0..3, w \in {1, -1} :
    /\ <<s, w>> # <<0, 1>>
    /\ Transformed("reorder", corner_order(box, s, w))

Next == CallAngle \/ CallDims \/ Translate \/ Rotate180 \/ Reorder

Spec == Init /\ [][Next]_vars

(* ------------------- restrict_0_to_180, step by step ------------------ *)

InitRestrict ==
    /\ box = <<(<<0, 0>>), (<<0, 0>>), (<<0, 0>>), (<<0, 0>>)>>
    /\ theta = NoTheta
    /\ angle = NoAngle
    /\ dims = NoDims
    /\ ref = NoRef
    /\ arg \in (0 - MaxDegree)..MaxDegree
    /\ degree = arg
    /\ rpc = "while"
    /\ ret = 0

\* while degree < 0: degree += 180
restrict_loop ==
    /\ rpc = "while"
    /\ degree < 0
    /\ degree' = degree + 180
    /\ UNCHANGED <<box, theta, angle, dims, ref, arg, rpc, ret>>

\* restrict_return without the modulo.
restrict_return_no_mod ==
    /\ rpc = "while"
    /\ ~(degree < 0)
    /\ ret' = degree
    /\ rpc' = "returned"
    /\ UNCHANGED <<box, theta, angle, dims, ref, arg, degree>>

\* return degree % 180
restrict_return ==
    /\ rpc = "while"
    /\ ~(degree < 0)
    /\ ret' = degree % 180
    /\ rpc' = "returned"
    /\ UNCHANGED <<box, theta, angle, dims, ref, arg, degree>>

NextRestrict == restrict_loop \/ restrict_return

SpecRestrict == InitRestrict /\ [][NextRestrict]_vars /\ WF_vars(NextRestrict)

(* ------------------------------ the claims ---------------------------- *)

\* The two sides at corner 0, as squares of their lengths.
side_a == dist_sq(box[1], box[2])

side_b == dist_sq(box[1], box[4])

AngleCalled == angle.outcome # "pending"

\* Four corners of a proper quadrilateral: no two coincide and the two sides at
\* corner 0 are not collinear.  Every rectangle with distinct corners is one.
ValidCorners ==
    /\ \A i \in 1..4, j \in 1..4 : i # j => box[i] # box[j]
    /\ (box[2][1] - box[1][1]) * (box[4][2] - box[1][2])
         # (box[2][2] - box[1][2]) * (box[4][1] - box[1][1])

\* C1: on valid corners get_mrr_angle_of_long_side returns an integer a with
\* 0 <= a < 180, by the vertical return and by the atan path alike.
C1_AngleInRange ==
    (AngleCalled /\ ValidCorners) =>
        /\ angle.outcome = "return"
        /\ angle.path \in {"vertical", "atan"}
        /\ angle.value \in 0..179

\* The arctangent rounded to -90 and was folded to 90.
C1_Witness ==
    /\ ValidCorners
    /\ angle.outcome = "return"
    /\ angle.path = "atan"
    /\ angle.rounded = 0 - 90
    /\ angle.value = 90

\* exp_length and exp_width of the tests: the extent of base_item_points in x and y.
exp_length ==
    LET xs == {base_item_points[i][1] : i \in 1..4}
    IN  (CHOOSE m \in xs : \A x \in xs : m >= x) - (CHOOSE m \in xs : \A x \in xs : m <= x)

exp_width ==
    LET ys == {base_item_points[i][2] : i \in 1..4}
    IN  (CHOOSE m \in ys : \A y \in ys : m >= y) - (CHOOSE m \in ys : \A y \in ys : m <= y)

DimsAsExpected ==
    dims.called => /\ round_len(dims.length) = exp_length
                   /\ round_len(dims.width) = exp_width

LongSideDx == box[1][1] - (IF side_a >= side_b THEN box[2] ELSE box[4])[1]

\* C3: when abs(x0 - x_end) <= VERTICAL_THRESHOLD the call returns exactly 90
\* by the early return, without the slope and atan computation; when
\* abs(x0 - x_end) > VERTICAL_THRESHOLD the early return is not taken.
C3_VerticalGuard ==
    AngleCalled =>
        /\ Abs(LongSideDx) <= VERTICAL_THRESHOLD =>
               /\ angle.outcome = "return"
               /\ angle.path = "vertical"
               /\ angle.value = 90
        /\ Abs(LongSideDx) > VERTICAL_THRESHOLD => angle.path # "vertical"

\* A long side whose x displacement is exactly the threshold, and not upright.
C3_Witness ==
    /\ angle.path = "vertical"
    /\ Abs(LongSideDx) = VERTICAL_THRESHOLD
    /\ Abs(angle.y_dist) = 1
    /\ angle.value = 90

\* C4: get_mrr_dims returns length >= width >= 0 with length the greater and
\* width the lesser of side_a and side_b; length = width exactly when
\* side_a = side_b.
C4_LengthWidth ==
    dims.called =>
        /\ dims.length >= dims.width
        /\ dims.width >= 0
        /\ dims.length = (IF side_a >= side_b THEN side_a ELSE side_b)
        /\ dims.width = (IF side_a >= side_b THEN side_b ELSE side_a)
        /\ (dims.length = dims.width) <=> (side_a = side_b)

\* The side to corner 3 is the longer one.
C4_Witness ==
    /\ dims.called
    /\ side_a < side_b
    /\ dims.length = side_b
    /\ dims.width = side_a
    /\ dims.width > 0

C6_HalfTurn ==
    (ref.kind = "rotate180" /\ AngleCalled) =>
        /\ angle.outcome = ref.angle.outcome
        /\ angle.value = ref.angle.value

\* Both displacements changed sign and the angle, not 0 or 90, is the same.
C6_Witness ==
    /\ ref.kind = "rotate180"
    /\ angle.path = "atan"
    /\ ref.angle.path = "atan"
    /\ angle.x_dist = 0 - ref.angle.x_dist
    /\ angle.y_dist = 0 - ref.angle.y_dist
    /\ angle.y_dist # 0
    /\ angle.value = ref.angle.value

\* C7: the end point is corner 1 whenever side_a >= side_b and corner 3 only
\* when side_a < side_b; for a square the angle is that of the side from
\* corner 0 to corner 1.
C7_SideSelection ==
    AngleCalled =>
        /\ side_a >= side_b => angle.end_pt = box[2]
        /\ angle.end_pt # box[2] => side_a < side_b /\ angle.end_pt = box[4]
        /\ side_a = side_b =>
               /\ angle.x_dist = box[1][1] - box[2][1]
               /\ angle.y_dist = box[1][2] - box[2][2]

\* A square whose two sides at corner 0 have different angles.
C7_Witness ==
    /\ angle.outcome = "return"
    /\ ValidCorners
    /\ side_a = side_b
    /\ angle.end_pt = box[2]
    /\ angle.path = "atan"
    /\ angle.value # get_mrr_angle_of_long_side(<<box[1], box[4], box[3], box[2]>>).value

\* C8: the same offset added to all four corners changes neither the angle
\* nor the dimensions.
C8_Translation ==
    ref.kind = "translate" =>
        /\ AngleCalled => angle.outcome = ref.angle.outcome /\ angle.value = ref.angle.value
        /\ dims.called => dims = ref.dims

\* A translated test shape measured again.
C8_Witness ==
    /\ ref.kind = "translate"
    /\ theta # NoTheta
    /\ box[1] # ref.box[1]
    /\ angle.path = "atan"
    /\ angle.value = ref.angle.value
    /\ dims.called

\* C10: with adjacent sides of different lengths, the angle is the same for
\* all 8 orders of the corners; the dimensions are the same for all 8 orders,
\* squares included.
C10_CornerOrder ==
    ref.kind = "reorder" =>
        /\ (AngleCalled /\ ref.dims.length # ref.dims.width) =>
               angle.outcome = ref.angle.outcome /\ angle.value = ref.angle.value
        /\ dims.called => dims = ref.dims

\* The corners listed from another corner in the opposite winding, so that
\* the long side is now the one to corner 3.
C10_Witness ==
    /\ ref.kind = "reorder"
    /\ ValidCorners
    /\ box[1] # ref.box[1]
    /\ ref.angle.end_pt = ref.box[2]
    /\ angle.end_pt = box[4]
    /\ angle.path = "atan"
    /\ angle.value = ref.angle.value
    /\ dims.called
    /\ dims.length # dims.width

\* C9: restrict_0_to_180 ends its loop for every integer and returns the one
\* r with 0 <= r < 180 that differs from the argument by a multiple of 180:
\* -1 gives 179, 181 gives 1, and 0..179 are returned as they are.
C9_Restrict ==
    /\ <>(rpc = "returned")
    /\ [](rpc = "returned" =>
            /\ ret \in 0..179
            /\ \E k \in (0 - MaxDegree)..MaxDegree : arg = ret + 180 * k
            /\ arg \in 0..179 => ret = arg
            /\ arg = 0 - 1 => ret = 179
            /\ arg = 181 => ret = 1)

\* The call with -1 went round the loop once and returned 179.
C9_Witness ==
    /\ rpc = "returned"
    /\ arg = 0 - 1
    /\ degree = 179
    /\ ret = 179

====
